---- MODULE Spec2Model ----
(***************************************************************************)
(* Kinetic Particles: the gesture debouncer of App.tsx (second version of  *)
(* the component, src/App.tsx lines 409-920) and the life cycle of         *)
(* HandTrackingService (src/services/handTrackingService.ts, 240-296),     *)
(* what the service computes from a detection frame (298-469), and the     *)
(* ParticleSystem component (src/Playbooks.md, 12-572).                    *)
(*                                                                         *)
(* Time is counted in ticks of 100 ms.  A timer created by setTimeout is a *)
(* record in the set `timers`; it fires when its remaining time is 0, and  *)
(* the clock does not advance past a timer that is due.  A state update    *)
(* is followed by React's re-render: when one of the dependencies of the   *)
(* gesture effect changed, the effect's cleanup and then its body run in   *)
(* a step of their own (RunEffect), before any other event is handled.     *)
(*                                                                         *)
(* Numbers are JavaScript numbers without rounding: a finite value is a    *)
(* reduced fraction, NaN and the two infinities are values of their own.   *)
(* Landmarks lie on a line of integer points, where every distance is an   *)
(* integer and Math.sqrt is exact.                                         *)
(***************************************************************************)
EXTENDS Integers, FiniteSets, Sequences, TLC

VARIABLES
    handData,         \* App state: the last published HandData
    currentGesture,   \* App state: the committed gesture
    activeShape,      \* App state
    particleColor,    \* App state
    previousShape,    \* App state: the saved shape
    previousColor,    \* App state: the saved color
    isTracking,       \* App state
    timers,           \* the browser's table of armed setTimeout timers
    gestureTimerRef,  \* App ref: id of the last timer created (0 = null)
    effectPending,    \* React: a render changed a dependency of the gesture
                      \* effect, which has not run yet
    rawAge,           \* observer: how long the raw gesture has been what it is
    excursion,        \* observer: shape/color active when the excursion began
    last,             \* observer: the last step taken
    returned,         \* observer: since the committed gesture was committed,
                      \* the raw gesture came back to it and a release timer
                      \* was cancelled
    isRunning,        \* HandTrackingService field
    hands,            \* HandTrackingService field: a Hands instance (0 = null)
    camera,           \* HandTrackingService field: a Camera instance (0 = null)
    inst,             \* the Hands/Camera pairs created so far, in order
    calls,            \* the start() calls that passed the guard, in order
    inFlight,         \* the Hands a frame was sent to that has no results yet
                      \* (0 = none)
    lastCall,         \* observer: the last method called on the service
    results,          \* the Results the detector handed to processResults
    published,        \* the HandStates processResults passed to onUpdate for it
    perHand,          \* observer: tension and gesture of each hand of the loop
    outcome,          \* where processResults is: idle, pending, returned, threw
    props,            \* ParticleSystem props: shape, count, customText
    mounted,          \* ParticleSystem has rendered
    targetPositions,  \* ParticleSystem memo
    currentPositions, \* ParticleSystem memo: the buffer of the geometry
    velocities,       \* ParticleSystem memo
    explosionVelocities, \* ParticleSystem memo
    tensionVelocity,  \* ParticleSystem ref
    prevTensionRef,   \* ParticleSystem ref
    burstEnergy,      \* ParticleSystem ref
    shockwaveRadius,  \* ParticleSystem ref
    explosionPhase,   \* ParticleSystem ref
    cumulativeExplosion, \* ParticleSystem ref
    frame,            \* observer: the last animation frame
    initPending,     \* React: the effect of the last render has not run yet
    renderCount,      \* the renders so far
    frameCount        \* the animation frames so far

appVars == <<handData, currentGesture, activeShape, particleColor,
             previousShape, previousColor, isTracking, timers, gestureTimerRef,
             effectPending>>
obsVars == <<rawAge, excursion, last, returned>>
svcVars == <<isRunning, hands, camera, inst, calls, inFlight, lastCall>>
frameVars == <<results, published, perHand, outcome>>
psVars == <<props, mounted, targetPositions, currentPositions, velocities,
            explosionVelocities, tensionVelocity, prevTensionRef, burstEnergy,
            shockwaveRadius, explosionPhase, cumulativeExplosion, frame,
            initPending, renderCount, frameCount>>
vars == <<appVars, obsVars, svcVars, frameVars, psVars>>

----------------------------------------------------------------------------
(* types.ts / App.tsx: the closed sets of values *)

GestureType == {"none", "open", "fist", "victory", "love", "thumbs_up", "point"}
specialGestures == {"victory", "love", "thumbs_up", "point"}
BaseGestures == GestureType \ specialGestures

ParticleShape == {"Sphere", "Heart", "Flower", "Saturn", "Buddha", "Fireworks",
                  "Galaxy", "DNA", "Text"}

\* the two debounce delays, in ticks of 100 ms
ConfirmTicks == 3
ReleaseTicks == 10

\* the shape and the color a special gesture applies
GestureShape(g) ==
    CASE g = "victory"   -> "Text"
      [] g = "love"      -> "Heart"
      [] g = "thumbs_up" -> "Fireworks"
      [] g = "point"     -> "Saturn"

GestureColor(g) ==
    CASE g = "victory"   -> "#ffd700"
      [] g = "love"      -> "#ec4899"
      [] g = "thumbs_up" -> "#ef4444"
      [] g = "point"     -> "#06b6d4"

\* what the user picks in the panel during a run
UIShapes == {"Sphere", "Text"}
UIColors == {"#4ade80"}

\* tension in tenths; the HandState values the service publishes in a run
NeutralHandData == [tension |-> 0, detected |-> FALSE, gesture |-> "none"]

PublishedStates ==
    {[tension |-> 0, detected |-> FALSE, leftHand |-> FALSE, rightHand |-> FALSE,
      gesture |-> "none"]}
    \cup {[tension |-> 0, detected |-> TRUE, leftHand |-> TRUE, rightHand |-> FALSE,
           gesture |-> "open"],
          [tension |-> 10, detected |-> TRUE, leftHand |-> TRUE, rightHand |-> FALSE,
           gesture |-> "fist"]}
    \cup {[tension |-> 5, detected |-> TRUE, leftHand |-> TRUE, rightHand |-> FALSE,
           gesture |-> g] : g \in specialGestures}

----------------------------------------------------------------------------
(* The component's state as one record, so that the effect is a function *)

AppState ==
    [gesture |-> handData.gesture, cur |-> currentGesture,
     shape |-> activeShape, color |-> particleColor,
     pShape |-> previousShape, pColor |-> previousColor,
     timers |-> timers, ref |-> gestureTimerRef]

\* the dependency array of the gesture effect
EffectDeps(s) == <<s.gesture, s.cur, s.shape, s.color, s.pShape, s.pColor>>

\* a clearTimeout that clears nothing
ClearTimeoutRef_Keep(s) == s

\* clearTimeout(gestureTimerRef.current) when the ref is not null
ClearTimeoutRef(s) == [s EXCEPT !.timers = {t \in s.timers : t.id # s.ref}]

\* the id setTimeout returns: one no live reference holds
FreshTimerId(s) ==
    CHOOSE i \in 1..(Cardinality(s.timers) + 2) :
        i # s.ref /\ \A t \in s.timers : t.id # i

\* a setTimeout that gives every timer the confirm delay
SetTimeoutRef_Short(s, kind, delay) ==
    LET id == FreshTimerId(s)
        t  == [id |-> id, kind |-> kind, left |-> ConfirmTicks,
               gesture |-> s.gesture, cur |-> s.cur,
               shape |-> IF kind = "confirm" THEN s.shape ELSE s.pShape,
               color |-> IF kind = "confirm" THEN s.color ELSE s.pColor]
    IN  [s EXCEPT !.timers = @ \cup {t}, !.ref = id]

\* gestureTimerRef.current = setTimeout(callback, delay), with the values the
\* callback closes over
SetTimeoutRef(s, kind, delay) ==
    LET id == FreshTimerId(s)
        t  == [id |-> id, kind |-> kind, left |-> delay,
               gesture |-> s.gesture, cur |-> s.cur,
               shape |-> IF kind = "confirm" THEN s.shape ELSE s.pShape,
               color |-> IF kind = "confirm" THEN s.color ELSE s.pColor]
    IN  [s EXCEPT !.timers = @ \cup {t}, !.ref = id]

\* an effect that returns no cleanup
EffectCleanup_None(s) == s

\* the cleanup the effect returns
EffectCleanup(s) == ClearTimeoutRef(s)

\* an effect whose last branch ignores the change between base gestures
GestureEffect_IgnoreBase(s) ==
    IF s.gesture # s.cur
    THEN LET c == ClearTimeoutRef(s)
         IN  IF s.gesture \in specialGestures
             THEN SetTimeoutRef(c, "confirm", ConfirmTicks)
             ELSE IF s.cur \in specialGestures
                  THEN SetTimeoutRef(c, "release", ReleaseTicks)
                  ELSE c
    ELSE s

\* the body of the gesture effect
GestureEffect(s) ==
    IF s.gesture # s.cur
    THEN LET c == ClearTimeoutRef(s)
         IN  IF s.gesture \in specialGestures
             THEN SetTimeoutRef(c, "confirm", ConfirmTicks)
             ELSE IF s.cur \in specialGestures
                  THEN SetTimeoutRef(c, "release", ReleaseTicks)
                  ELSE [c EXCEPT !.cur = s.gesture]
    ELSE s

\* React runs the effect again after a render in which a dependency changed
DepsChanged(before, after) == EffectDeps(after) # EffectDeps(before)

\* a confirm callback that saves the shape and the color on every commit
ConfirmCallback_AlwaysSave(s, t) ==
    [s EXCEPT !.pShape = t.shape, !.pColor = t.color,
              !.cur = t.gesture,
              !.shape = GestureShape(t.gesture),
              !.color = GestureColor(t.gesture)]

\* the callback of the 300 ms timer
ConfirmCallback(s, t) ==
    LET saved == IF t.cur \notin specialGestures
                 THEN [s EXCEPT !.pShape = t.shape, !.pColor = t.color]
                 ELSE s
    IN  [saved EXCEPT !.cur = t.gesture,
                      !.shape = GestureShape(t.gesture),
                      !.color = GestureColor(t.gesture)]

\* a release callback that resets the gesture and restores nothing
ReleaseCallback_NoRestore(s, t) == [s EXCEPT !.cur = "none"]

\* the callback of the 1000 ms timer
ReleaseCallback(s, t) ==
    [s EXCEPT !.cur = "none", !.shape = t.shape, !.color = t.color]

----------------------------------------------------------------------------
(* HandTrackingService: start() and stop().  The i-th start() that passes the  *)
(* guard creates the i-th Hands and the i-th Camera; inst[i] records the state *)
(* of that camera's start() promise and how often each of the two was released *)

\* the start() calls of a run that create instances
MaxStarts == 3

SvcState ==
    [isRunning |-> isRunning, hands |-> hands, camera |-> camera,
     inst |-> inst, calls |-> calls, inFlight |-> inFlight]

\* new Hands(...) and new Camera(...)
NewInstance == [cam |-> "starting", camStops |-> 0, handsCloses |-> 0]

\* a start() that creates and starts a camera whatever isRunning is
StartCall_NoGuard(s) ==
    LET i == Len(s.inst) + 1
    IN  [s EXCEPT !.hands = i, !.camera = i,
                  !.inst = Append(@, NewInstance),
                  !.calls = Append(@, [cam |-> i, status |-> "awaiting"])]

\* start() up to `await this.camera.start()`
StartCall(s) ==
    IF s.isRunning
    THEN s
    ELSE LET i == Len(s.inst) + 1
         IN  [s EXCEPT !.hands = i, !.camera = i,
                       !.inst = Append(@, NewInstance),
                       !.calls = Append(@, [cam |-> i, status |-> "awaiting"])]

\* camera.start() resolved: the rest of start()
StartResume(s, c) ==
    [s EXCEPT !.isRunning = TRUE,
              !.inst[s.calls[c].cam].cam = "started",
              !.calls[c].status = "returned"]

\* camera.start() rejected: start() throws to its caller
StartThrow(s, c) ==
    [s EXCEPT !.inst[s.calls[c].cam].cam = "failed",
              !.calls[c].status = "threw"]

\* a stop() that keeps its references to what it released
StopCall_KeepRefs(s) ==
    LET s1 == [s EXCEPT !.isRunning = FALSE]
        s2 == IF s1.camera # 0
              THEN [s1 EXCEPT !.inst[s1.camera].camStops = @ + 1]
              ELSE s1
    IN  IF s2.hands # 0
        THEN [s2 EXCEPT !.inst[s2.hands].handsCloses = @ + 1]
        ELSE s2

\* stop()
StopCall(s) ==
    LET s1 == [s EXCEPT !.isRunning = FALSE]
        s2 == IF s1.camera # 0
              THEN [s1 EXCEPT !.inst[s1.camera].camStops = @ + 1, !.camera = 0]
              ELSE s1
    IN  IF s2.hands # 0
        THEN [s2 EXCEPT !.inst[s2.hands].handsCloses = @ + 1, !.hands = 0]
        ELSE s2

\* the onFrame callback of a Camera: the frame is sent to this.hands
OnFrameCall(s) ==
    IF s.hands # 0 /\ s.isRunning THEN [s EXCEPT !.inFlight = s.hands] ELSE s

\* the onResults callback: processResults, which calls onUpdate
OnResultsCall(s) == [s EXCEPT !.inFlight = 0]

\* write the service state s back
CommitSvc(s, op) ==
    /\ isRunning' = s.isRunning
    /\ hands' = s.hands
    /\ camera' = s.camera
    /\ inst' = s.inst
    /\ calls' = s.calls
    /\ inFlight' = s.inFlight
    /\ lastCall' = [op |-> op, wasRunning |-> isRunning,
                    repeated |-> (op = lastCall.op)]

----------------------------------------------------------------------------
(* Numbers *)

RECURSIVE GCD(_, _)
GCD(a, b) == IF b = 0 THEN a ELSE GCD(b, a % b)

Abs(n) == IF n < 0 THEN -n ELSE n
Sign(n) == IF n < 0 THEN -1 ELSE 1

\* the finite number n/d, d > 0
Fin(n, d) ==
    LET g == GCD(Abs(n), d)
    IN  [k |-> "fin", n |-> Sign(n) * (Abs(n) \div g), d |-> d \div g]

NaN == [k |-> "nan", n |-> 0, d |-> 1]
Infinity(s) == [k |-> "inf", n |-> s, d |-> 1]
IsNaN(a) == a.k = "nan"
IsZero(a) == a.k = "fin" /\ a.n = 0

\* a < b for two numbers that are not NaN
Below(a, b) ==
    IF a.k = "inf" THEN a.n < 0 /\ ~(b.k = "inf" /\ b.n < 0)
    ELSE IF b.k = "inf" THEN b.n > 0
    ELSE a.n * b.d < b.n * a.d

\* the operators < and >: false when an operand is NaN
NumLt(a, b) == ~IsNaN(a) /\ ~IsNaN(b) /\ Below(a, b)
NumGt(a, b) == NumLt(b, a)

\* Math.min and Math.max: NaN when an argument is NaN
MathMin(a, b) ==
    IF IsNaN(a) \/ IsNaN(b) THEN NaN ELSE IF Below(b, a) THEN b ELSE a
MathMax(a, b) ==
    IF IsNaN(a) \/ IsNaN(b) THEN NaN ELSE IF Below(a, b) THEN b ELSE a

NumNeg(a) == [a EXCEPT !.n = -a.n]

NumAdd(a, b) ==
    IF IsNaN(a) \/ IsNaN(b) THEN NaN
    ELSE IF a.k = "inf"
         THEN IF b.k = "inf" /\ b.n # a.n THEN NaN ELSE a
         ELSE IF b.k = "inf" THEN b
              ELSE Fin(a.n * b.d + b.n * a.d, a.d * b.d)

NumSub(a, b) == NumAdd(a, NumNeg(b))

NumMul(a, b) ==
    IF IsNaN(a) \/ IsNaN(b) THEN NaN
    ELSE IF a.k = "inf" \/ b.k = "inf"
         THEN IF IsZero(a) \/ IsZero(b) THEN NaN
              ELSE Infinity(Sign(a.n) * Sign(b.n))
         ELSE Fin(a.n * b.n, a.d * b.d)

\* the operator /: x/0 is an infinity and 0/0 is NaN
NumDiv(a, b) ==
    IF IsNaN(a) \/ IsNaN(b) THEN NaN
    ELSE IF a.k = "inf"
         THEN IF b.k = "inf" THEN NaN ELSE Infinity(Sign(a.n) * Sign(b.n))
         ELSE IF b.k = "inf" THEN Fin(0, 1)
              ELSE IF b.n = 0
                   THEN IF a.n = 0 THEN NaN ELSE Infinity(Sign(a.n))
                   ELSE Fin(Sign(b.n) * a.n * b.d, a.d * Abs(b.n))

\* Math.sqrt of a square
MathSqrt(n) == CHOOSE r \in 0..n : r * r = n

----------------------------------------------------------------------------
(* HandTrackingService: from a detection frame to a HandState *)

\* setOptions: the detector reports at most two hands
maxNumHands == 2

Landmark(x) == [x |-> x, y |-> 0, z |-> 0]

\* landmarks[i], an array index counted from 0
At(landmarks, i) == landmarks[i + 1]
IsUndefined(landmarks, i) == i >= Len(landmarks)

distance(a, b) ==
    LET dx == a.x - b.x
        dy == a.y - b.y
        dz == a.z - b.z
    IN  Fin(MathSqrt(dx * dx + dy * dy + dz * dz), 1)

fingerTips == <<4, 8, 12, 16, 20>>
fingerBases == <<2, 5, 9, 13, 17>>

\* the landmarks calculateTension hands to distance
TensionIndices ==
    {0, 9} \cup {fingerTips[i] : i \in 1..5} \cup {fingerBases[i] : i \in 1..5}

\* the curl of the i-th finger: one iteration of the loop
Curl(landmarks, i) ==
    LET palmBase  == At(landmarks, 9)
        palmSize  == distance(At(landmarks, 0), palmBase)
        tipToPalm == distance(At(landmarks, fingerTips[i]), palmBase)
        extension == NumDiv(tipToPalm, palmSize)
    IN  MathMax(Fin(0, 1),
                MathMin(Fin(1, 1), NumDiv(NumSub(Fin(3, 2), extension), Fin(1, 1))))

RECURSIVE TotalCurl(_, _)
TotalCurl(landmarks, n) ==
    IF n = 0 THEN Fin(0, 1)
    ELSE NumAdd(TotalCurl(landmarks, n - 1), Curl(landmarks, n))

calculateTension(landmarks) ==
    LET avgCurl == NumDiv(TotalCurl(landmarks, 5), Fin(5, 1))
    IN  MathMax(Fin(0, 1), MathMin(Fin(1, 1), avgCurl))

\* the landmarks detectGesture hands to distance
GestureIndices == {0, 9, 8, 6, 12, 10, 16, 14, 20, 18, 4, 5}

\* the finger states detectGesture computes
FingerStates(landmarks) ==
    LET wrist    == At(landmarks, 0)
        palmBase == At(landmarks, 9)
        palmSize == distance(wrist, palmBase)
        Far(tip, pip, f) ==
            NumGt(distance(At(landmarks, tip), wrist),
                  NumMul(distance(At(landmarks, pip), wrist), f))
        Near(tip) ==
            NumLt(distance(At(landmarks, tip), palmBase),
                  NumMul(palmSize, Fin(12, 10)))
    IN  [indexExtended  |-> Far(8, 6, Fin(12, 10)),
         middleExtended |-> Far(12, 10, Fin(12, 10)),
         ringExtended   |-> Far(16, 14, Fin(11, 10)),
         ringCurled     |-> Near(16),
         pinkyExtended  |-> Far(20, 18, Fin(11, 10)),
         pinkyCurled    |-> Near(20),
         thumbExtended  |-> NumGt(distance(At(landmarks, 4), At(landmarks, 5)),
                                  NumMul(palmSize, Fin(6, 10)))]

\* a chain of returns without the love test
GestureOf_NoLove(p) ==
    IF p.indexExtended /\ p.middleExtended /\ p.ringCurled /\ p.pinkyCurled
    THEN "victory"
    ELSE IF p.thumbExtended /\ ~p.indexExtended /\ ~p.middleExtended
            /\ ~p.ringExtended /\ ~p.pinkyExtended
    THEN "thumbs_up"
    ELSE IF p.indexExtended /\ ~p.middleExtended /\ ~p.ringExtended
            /\ ~p.pinkyExtended
    THEN "point"
    ELSE "none"

\* the chain of returns at the end of detectGesture
GestureOf(p) ==
    IF p.indexExtended /\ p.middleExtended /\ p.ringCurled /\ p.pinkyCurled
    THEN "victory"
    ELSE IF p.thumbExtended /\ p.indexExtended /\ ~p.middleExtended
            /\ ~p.ringExtended /\ p.pinkyExtended
    THEN "love"
    ELSE IF p.thumbExtended /\ ~p.indexExtended /\ ~p.middleExtended
            /\ ~p.ringExtended /\ ~p.pinkyExtended
    THEN "thumbs_up"
    ELSE IF p.indexExtended /\ ~p.middleExtended /\ ~p.ringExtended
            /\ ~p.pinkyExtended
    THEN "point"
    ELSE "none"

detectGesture(landmarks) == GestureOf(FingerStates(landmarks))

\* reading .x of an undefined landmark is a TypeError
ThrowsTypeError(landmarks) ==
    \E i \in TensionIndices \cup GestureIndices : IsUndefined(landmarks, i)

\* a no-hands state that says a hand was detected
NeutralHandState_Detected ==
    [tension |-> Fin(0, 1), detected |-> TRUE, leftHand |-> FALSE,
     rightHand |-> FALSE, gesture |-> "none"]

\* a no-hands state with the gesture of an open hand
NeutralHandState_Open ==
    [tension |-> Fin(0, 1), detected |-> FALSE, leftHand |-> FALSE,
     rightHand |-> FALSE, gesture |-> "open"]

\* the HandState processResults publishes for a frame without hands
NeutralHandState ==
    [tension |-> Fin(0, 1), detected |-> FALSE, leftHand |-> FALSE,
     rightHand |-> FALSE, gesture |-> "none"]

\* flags named after the label as it is
SetHandFlags_Unmirrored(acc, handedness) ==
    IF handedness = "Left"
    THEN [acc EXCEPT !.leftHand = TRUE]
    ELSE [acc EXCEPT !.rightHand = TRUE]

\* the image is mirrored: label Left is the user's right hand
SetHandFlags(acc, handedness) ==
    IF handedness = "Left"
    THEN [acc EXCEPT !.rightHand = TRUE]
    ELSE [acc EXCEPT !.leftHand = TRUE]

\* if (gesture !== 'none') detectedGesture = gesture
KeepGesture(detectedGesture, gesture) ==
    IF gesture # "none" THEN gesture ELSE detectedGesture

\* the variables of the loop over the hands, before its first iteration
LoopStart ==
    [totalTension |-> Fin(0, 1), leftHand |-> FALSE, rightHand |-> FALSE,
     detectedGesture |-> "none", perHand |-> <<>>, threw |-> FALSE]

\* the loop over the hands from iteration i on
RECURSIVE HandLoop(_, _, _)
HandLoop(r, i, acc) ==
    IF i > Len(r.multiHandLandmarks) THEN acc
    ELSE LET landmarks  == r.multiHandLandmarks[i]
             handedness == r.multiHandedness[i].label
             flagged    == SetHandFlags(acc, handedness)
         IN  IF ThrowsTypeError(landmarks)
             THEN [flagged EXCEPT !.threw = TRUE]
             ELSE LET tension == calculateTension(landmarks)
                      gesture == detectGesture(landmarks)
                  IN  HandLoop(r, i + 1,
                        [flagged EXCEPT
                           !.totalTension = NumAdd(@, tension),
                           !.detectedGesture = KeepGesture(@, gesture),
                           !.perHand = Append(@, [tension |-> tension,
                                                  gesture |-> gesture])])

\* a gesture taken from the tension whatever the hands show
OverallGesture_TensionOnly(detectedGesture, avgTension) ==
    IF NumGt(avgTension, Fin(7, 10)) THEN "fist"
    ELSE IF NumLt(avgTension, Fin(3, 10)) THEN "open"
    ELSE detectedGesture

\* the overall gesture when no hand shows a specific one
OverallGesture(detectedGesture, avgTension) ==
    IF detectedGesture = "none"
    THEN IF NumGt(avgTension, Fin(7, 10)) THEN "fist"
         ELSE IF NumLt(avgTension, Fin(3, 10)) THEN "open"
         ELSE detectedGesture
    ELSE detectedGesture

\* processResults(results): what it passes to onUpdate and how it ends
processResults(r) ==
    IF ~r.defined \/ Len(r.multiHandLandmarks) = 0
    THEN [published |-> <<NeutralHandState>>, outcome |-> "returned",
          perHand |-> <<>>]
    ELSE LET acc == HandLoop(r, 1, LoopStart)
             avgTension == NumDiv(acc.totalTension,
                                  Fin(Len(r.multiHandLandmarks), 1))
         IN  IF acc.threw
             THEN [published |-> <<>>, outcome |-> "threw",
                   perHand |-> acc.perHand]
             ELSE [published |->
                      <<[tension |-> avgTension, detected |-> TRUE,
                         leftHand |-> acc.leftHand, rightHand |-> acc.rightHand,
                         gesture |-> OverallGesture(acc.detectedGesture,
                                                    avgTension)]>>,
                   outcome |-> "returned", perHand |-> acc.perHand]

(* The frames of a run: hands on the line through the wrist, the palm base  *)
(* 10 from the wrist and the PIP joints 13 from it, every finger tip on    *)
(* the palm base or stretched out, the pinky also in between; two hands     *)
(* whose wrist and palm base coincide; and an observation cut short after   *)
(* 20 landmarks                                                             *)

Handedness == {"Left", "Right"}

Hand(palm, pip, thumb, index, middle, ring, pinky) ==
    [n \in 1..21 |->
        Landmark(CASE n - 1 = 0 -> 0
                   [] n - 1 \in {1, 2, 3, 5, 9, 13, 17} -> palm
                   [] n - 1 \in {6, 7, 10, 11, 14, 15, 18, 19} -> pip
                   [] n - 1 = 4 -> thumb
                   [] n - 1 = 8 -> index
                   [] n - 1 = 12 -> middle
                   [] n - 1 = 16 -> ring
                   [] n - 1 = 20 -> pinky)]

\* curled onto the palm base, or stretched out
CurlOrStretch == {10, 30}
\* or in between: far from the wrist and near the palm base
TipPositions == {10, 20, 30}

HandPoses ==
    {Hand(10, 13, t, i, m, r, p) :
        t \in CurlOrStretch, i \in CurlOrStretch, m \in CurlOrStretch,
        r \in CurlOrStretch, p \in TipPositions}
    \cup {Hand(0, 0, 0, 0, 0, 0, 0), Hand(0, 3, 10, 30, 30, 10, 10)}
    \cup {SubSeq(Hand(10, 13, 10, 30, 30, 10, 10), 1, 20)}

NoResults ==
    [defined |-> FALSE, multiHandLandmarks |-> <<>>, multiHandedness |-> <<>>]

\* the Results for the hands h with the labels l
Frame(h, l) ==
    [defined |-> TRUE, multiHandLandmarks |-> h,
     multiHandedness |-> [j \in 1..Len(h) |-> [label |-> l[j]]]]

----------------------------------------------------------------------------
(* ParticleSystem: the target cloud.  Coordinates are in thousandths.  The  *)
(* canvas finds the pixels textPixelsOf gives, and within one call of       *)
(* GenerateParticles every Math.random() returns the same value u/1000      *)

\* the particle counts of a run
Counts == {1, 21}
\* what Math.random() returns: 0 or 0.5
RandomDraws == {0, 500}
\* the texts of a run: one that has foreground pixels and one that has none
Texts == {"hi", " "}

\* the foreground pixels the scan of the canvas collects
textPixelsOf(text) ==
    IF text = "hi" THEN <<[x |-> 280, y |-> 60], [x |-> 320, y |-> 90]>>
    ELSE <<>>

\* a Float32Array of n zeros
ZeroArray(n) == [k \in 1..n |-> 0]

\* the Float32Array whose i-th point, counted from 0, is points[i]
PointArray(count, points) ==
    [k \in 1..(3 * count) |-> points[(k - 1) \div 3][((k - 1) % 3) + 1]]

\* the point of particle i in generateTextPoints
TextPoint(textPixels, i, u) ==
    IF Len(textPixels) > 0
    THEN LET pixel   == textPixels[(i % Len(textPixels)) + 1]
             z       == ((u - 500) * 200) \div 1000
             jitterX == ((u - 500) * 50) \div 1000
             jitterY == ((u - 500) * 50) \div 1000
         IN  <<(pixel.x - 300) * 35 + jitterX,
               -((pixel.y - 75) * 35) + jitterY,
               z>>
    ELSE LET col == i % 20
             row == (i \div 20) % 10
         IN  <<(col - 10) * 300, (row - 5) * 300, 0>>

\* a generator that makes one point for each pixel it found, at most count
generateTextPoints_PerPixel(text, count, u) ==
    LET textPixels == textPixelsOf(text)
        n == IF Len(textPixels) > 0 /\ Len(textPixels) < count
             THEN Len(textPixels) ELSE count
    IN  PointArray(n, [i \in 0..(n - 1) |-> TextPoint(textPixels, i, u)])

generateTextPoints(text, count, u) ==
    LET textPixels == textPixelsOf(text)
    IN  PointArray(count,
                   [i \in 0..(count - 1) |-> TextPoint(textPixels, i, u)])

\* the points of the helix for 21 particles, every Math.random() being 0
DNAPoints_0 ==
    <<<<1400, -5100, -100>>, <<448, -4624, 1296>>, <<-1200, -4148, 920>>,
      <<-1451, -3671, -751>>, <<12, -3195, -1596>>, <<1333, -2719, -542>>,
      <<835, -2243, 1073>>, <<-850, -1767, 1199>>, <<-1583, -1290, -324>>,
      <<-434, -814, -1562>>, <<1139, -338, -945>>, <<1139, 138, 745>>,
      <<-434, 614, 1362>>, <<-1583, 1090, 124>>, <<-850, 1567, -1399>>,
      <<835, 2043, -1273>>, <<1333, 2519, 342>>, <<12, 2995, 1396>>,
      <<-1451, 3471, 551>>, <<-1200, 3948, -1120>>, <<448, 4424, -1496>>>>

\* the points of the helix for 21 particles, every Math.random() being 0.5
DNAPoints_500 ==
    <<<<1500, -5000, 0>>, <<-548, -4524, -1396>>, <<-1100, -4048, 1020>>,
      <<1351, -3571, 651>>, <<112, -3095, -1496>>, <<-1433, -2619, 442>>,
      <<935, -2143, 1173>>, <<750, -1667, -1299>>, <<-1483, -1190, -224>>,
      <<334, -714, 1462>>, <<1239, -238, -845>>, <<-1239, 238, -845>>,
      <<-334, 714, 1462>>, <<1483, 1190, -224>>, <<-750, 1667, -1299>>,
      <<-935, 2143, 1173>>, <<1433, 2619, 442>>, <<-112, 3095, -1496>>,
      <<-1351, 3571, 651>>, <<1100, 4048, 1020>>, <<548, 4524, -1396>>>>

\* the points of the four galaxy branches, every Math.random() being 0.5
GalaxyPoints_500 ==
    <<<<647, -38, -2460>>, <<2335, -38, 647>>, <<-772, -38, 2335>>,
      <<-2460, -38, -772>>>>

\* the point the switch computes for particle i, in thousandths, when every
\* Math.random() of the call returns u/1000
ShapePoint(shape, count, i, u) ==
    CASE shape = "Sphere" -> IF u = 0 THEN <<0, 0, 0>> ELSE <<-3175, 0, 0>>
      [] shape = "Heart" -> IF u = 0 THEN <<0, 0, 0>> ELSE <<0, -2125, 0>>
      [] shape = "Flower" -> IF u = 0 THEN <<0, 0, 0>> ELSE <<-2250, 0, 0>>
      [] shape = "Saturn" -> IF u = 0 THEN <<0, 0, 0>> ELSE <<-1587, 0, 0>>
      [] shape = "Buddha" -> IF u = 0 THEN <<0, 3000, 0>> ELSE <<-1587, -1250, 0>>
      [] shape = "Fireworks" -> IF u = 0 THEN <<0, 2000, 0>> ELSE <<1000, 500, -1000>>
      [] shape = "Galaxy" -> IF u = 0 THEN <<0, 0, 0>>
                             ELSE GalaxyPoints_500[(i % 4) + 1]
      [] shape = "DNA" ->
            IF count = 1
            THEN IF u = 0 THEN <<1400, -5100, -100>> ELSE <<1500, -5000, 0>>
            ELSE IF u = 0 THEN DNAPoints_0[i + 1] ELSE DNAPoints_500[i + 1]

GenerateParticles(count, shape, customText, u) ==
    IF shape = "Text"
    THEN generateTextPoints(customText, count, u)
    ELSE PointArray(count,
                    [i \in 0..(count - 1) |-> ShapePoint(shape, count, i, u)])

(* ParticleSystem: the component *)

\* the renders of a run, the first one included
MaxRenders == 2
\* the animation frames of a run
MaxFrames == 2
\* the tension the component is given, in thousandths: an open hand or a fist
TensionInputs == {0, 1000}
\* the time since the last frame, in thousandths of a second
Deltas == {16}
\* the sum of the contributions that oscillate with the clock
ClockOffsets == {0, 100}

PropsSet == [shape : ParticleShape, count : Counts, customText : Texts]

(* the animation alone: one particle, more frames, and also a hand closed *)
(* almost to a fist and two frames of the same instant                    *)
MaxAnimRenders == 3
MaxAnimFrames == 3
AnimTensionInputs == {0, 990, 1000}
AnimDeltas == {0, 16}
AnimPropsSet == [shape : {"Sphere", "Text"}, count : {1}, customText : {"hi"}]

\* a number of thousandths as a number, and a finite number in thousandths
Milli(x) == Fin(x, 1000)
Thousandths(a) == (a.n * 1000) \div a.d

\* Math.abs
MathAbs(a) == [a EXCEPT !.n = Abs(a.n)]

\* Math.sqrt, rounded down
RECURSIVE SqrtFrom(_, _)
SqrtFrom(n, x) ==
    LET y == (x + n \div x) \div 2
    IN  IF y >= x THEN x ELSE SqrtFrom(n, y)
FloorSqrt(n) == IF n = 0 THEN 0 ELSE SqrtFrom(n, n)

\* no animation frame yet
NoFrame ==
    [mode |-> "none", tension |-> 0, tensionDelta |-> Fin(0, 1),
     burst |-> Fin(0, 1)]

PsState ==
    [props |-> props, mounted |-> mounted,
     targetPositions |-> targetPositions,
     currentPositions |-> currentPositions, velocities |-> velocities,
     explosionVelocities |-> explosionVelocities,
     tensionVelocity |-> tensionVelocity, prevTensionRef |-> prevTensionRef,
     burstEnergy |-> burstEnergy, shockwaveRadius |-> shockwaveRadius,
     explosionPhase |-> explosionPhase,
     cumulativeExplosion |-> cumulativeExplosion]

\* a render with the props p and the tension: the useRef hooks, whose
\* argument counts on the first render only, and the useMemo hooks
RenderWith(s, p, tension, u) ==
    LET first == ~s.mounted
        newCount == first \/ p.count # s.props.count
    IN  [s EXCEPT
           !.props = p,
           !.mounted = TRUE,
           !.tensionVelocity = IF first THEN Fin(0, 1) ELSE @,
           !.prevTensionRef = IF first THEN Milli(tension) ELSE @,
           !.burstEnergy = IF first THEN Fin(0, 1) ELSE @,
           !.shockwaveRadius = IF first THEN Fin(0, 1) ELSE @,
           !.explosionPhase = IF first THEN Fin(0, 1) ELSE @,
           !.cumulativeExplosion = IF first THEN Fin(0, 1) ELSE @,
           !.currentPositions = IF newCount THEN ZeroArray(3 * p.count) ELSE @,
           !.velocities = IF newCount THEN ZeroArray(3 * p.count) ELSE @,
           !.explosionVelocities =
              IF newCount THEN ZeroArray(3 * p.count) ELSE @,
           !.targetPositions =
              GenerateParticles(p.count, p.shape, p.customText, u)]

\* the effect on [targetPositions, currentPositions]
InitPositions(s) ==
    IF s.currentPositions[1] = 0 /\ s.currentPositions[2] = 0
    THEN [s EXCEPT !.currentPositions = s.targetPositions]
    ELSE s

\* useFrame in text mode; wave is the sine of the clock, times 0.02
TextFrame_Decay(s, wave) ==
    [s EXCEPT !.currentPositions =
                 [k \in DOMAIN @ |->
                     LET t == s.targetPositions[k]
                              + (IF k % 3 = 2 THEN wave ELSE 0)
                     IN  @[k] + ((t - @[k]) * 15) \div 100],
              !.burstEnergy = NumMul(@, Fin(92, 100)),
              !.explosionPhase = NumMul(@, Fin(95, 100)),
              !.cumulativeExplosion = NumMul(@, Fin(98, 100)),
              !.shockwaveRadius = NumMul(@, Fin(96, 100))]

TextFrame(s, wave) ==
    [s EXCEPT !.currentPositions =
        [k \in DOMAIN @ |->
            LET t == s.targetPositions[k] + (IF k % 3 = 2 THEN wave ELSE 0)
            IN  @[k] + ((t - @[k]) * 15) \div 100]]

\* useFrame in full mode: tensionDelta
TensionDelta(s, tension) == NumSub(Milli(tension), s.prevTensionRef)

\* tensionVelocity and prevTensionRef
TrackTension(s, tension, tensionDelta) ==
    [s EXCEPT !.tensionVelocity =
                 NumAdd(NumMul(@, Fin(85, 100)), NumMul(tensionDelta, Fin(15, 1))),
              !.prevTensionRef = Milli(tension)]

isOpening_AnyDrop(tensionDelta) == NumLt(tensionDelta, Fin(0, 1))

isOpening(tensionDelta) == NumLt(tensionDelta, Fin(-15, 1000))

openingSpeed(tensionDelta) == MathAbs(MathMin(tensionDelta, Fin(0, 1)))

\* the burst: the three accumulators of a rapid opening
Accumulate_NoCap(s, tensionDelta) ==
    IF isOpening(tensionDelta)
    THEN [s EXCEPT
            !.burstEnergy = NumAdd(@, NumMul(openingSpeed(tensionDelta), Fin(25, 1))),
            !.explosionPhase = NumAdd(@, NumMul(openingSpeed(tensionDelta), Fin(30, 1))),
            !.cumulativeExplosion = NumAdd(@, NumMul(openingSpeed(tensionDelta), Fin(10, 1)))]
    ELSE s

Accumulate(s, tensionDelta) ==
    IF isOpening(tensionDelta)
    THEN [s EXCEPT
            !.burstEnergy =
               MathMin(NumAdd(@, NumMul(openingSpeed(tensionDelta), Fin(25, 1))),
                       Fin(5, 1)),
            !.explosionPhase =
               MathMin(NumAdd(@, NumMul(openingSpeed(tensionDelta), Fin(30, 1))),
                       Fin(1, 1)),
            !.cumulativeExplosion =
               MathMin(NumAdd(@, NumMul(openingSpeed(tensionDelta), Fin(10, 1))),
                       Fin(2, 1))]
    ELSE s

\* the shockwave expands
Shockwave(s, delta) ==
    IF NumGt(s.burstEnergy, Fin(1, 2))
    THEN [s EXCEPT !.shockwaveRadius =
            NumAdd(@, NumMul(NumMul(Milli(delta), Fin(15, 1)), s.burstEnergy))]
    ELSE s

\* the decay of the effects
Decay(s) ==
    [s EXCEPT !.burstEnergy = NumMul(@, Fin(92, 100)),
              !.explosionPhase = NumMul(@, Fin(95, 100)),
              !.cumulativeExplosion = NumMul(@, Fin(98, 100)),
              !.shockwaveRadius = NumMul(@, Fin(96, 100))]

\* scaleFactor = 0.15 + 3.35 * (1 - tension^0.7), for the tensions given
ScaleFactor(tension) ==
    IF tension = 0 THEN 3500 ELSE IF tension = 990 THEN 173 ELSE 150

\* 0.8 + sin(i * 0.1) * 0.4 for i = 0..20
MorphFactor ==
    <<800, 839, 879, 918, 955, 991, 1025, 1057, 1086, 1113, 1136, 1156, 1172,
      1185, 1194, 1198, 1199, 1196, 1189, 1178, 1163>>

\* the loop over the particles: the target scaled by scaleFactor, pushed
\* along the direction from the centre by the explosion and the shockwave,
\* moved by the explosion velocity and by the contributions that oscillate
\* with the clock and the index (offset), and the spring towards it
MoveParticles(s, tension, delta, offset, u) ==
    LET morphSpeed ==
            Thousandths(NumMul(NumAdd(Fin(8, 1),
                                      NumMul(MathAbs(s.tensionVelocity), Fin(6, 1))),
                               Milli(delta)))
        burst == Thousandths(s.burstEnergy)
        radius == Thousandths(s.shockwaveRadius)
        target == s.targetPositions
        dist == [i \in 0..(s.props.count - 1) |->
                    FloorSqrt(target[3 * i + 1] * target[3 * i + 1]
                              + target[3 * i + 2] * target[3 * i + 2]
                              + target[3 * i + 3] * target[3 * i + 3])]
        dir == [k \in DOMAIN target |->
                   LET i == (k - 1) \div 3
                   IN  IF dist[i] > 10 THEN (target[k] * 1000) \div dist[i]
                       ELSE u - 500]
        explosionStrength ==
            [i \in 0..(s.props.count - 1) |->
                IF burst = 0 THEN 0
                ELSE (burst * (800 + dist[i] \div 10)) \div 1000]
        shockwaveEffect ==
            [i \in 0..(s.props.count - 1) |->
                IF burst = 0 THEN 0
                ELSE LET shockwaveDist == Abs(dist[i] - radius)
                     IN  IF shockwaveDist < 1500
                         THEN ((((1500 - shockwaveDist) * 1000) \div 1500)
                               * burst * 8) \div 10000
                         ELSE 0]
        along ==
            [k \in DOMAIN target |->
                LET i == (k - 1) \div 3
                    strength == explosionStrength[i] + shockwaveEffect[i]
                IN  IF strength = 0 THEN 0 ELSE (dir[k] * strength) \div 1000]
        ev == [k \in DOMAIN target |->
                  LET i == (k - 1) \div 3
                      pushed == IF NumGt(s.burstEnergy, Fin(1, 1))
                                THEN s.explosionVelocities[k]
                                     + (dir[k] * explosionStrength[i] * 3) \div 10000
                                ELSE s.explosionVelocities[k]
                  IN  (pushed * 95) \div 100]
        v == [k \in DOMAIN target |->
                 LET i == (k - 1) \div 3
                     t == (target[k] * ScaleFactor(tension)) \div 1000
                          + along[k] + offset + ev[k]
                     particleMorphSpeed == (morphSpeed * MorphFactor[i + 1]) \div 1000
                 IN  (s.velocities[k] * 75) \div 100
                     + ((t - s.currentPositions[k]) * particleMorphSpeed) \div 1000]
    IN  [s EXCEPT !.explosionVelocities = ev,
                  !.velocities = v,
                  !.currentPositions = [k \in DOMAIN @ |-> @[k] + v[k]]]

\* useFrame in full mode
FullFrame(s, tension, delta, offset, u) ==
    LET tensionDelta == TensionDelta(s, tension)
    IN  MoveParticles(
            Decay(Shockwave(Accumulate(TrackTension(s, tension, tensionDelta),
                                       tensionDelta),
                            delta)),
            tension, delta, offset, u)

\* write the component state s back
CommitPs(s) ==
    /\ props' = s.props
    /\ mounted' = s.mounted
    /\ targetPositions' = s.targetPositions
    /\ currentPositions' = s.currentPositions
    /\ velocities' = s.velocities
    /\ explosionVelocities' = s.explosionVelocities
    /\ tensionVelocity' = s.tensionVelocity
    /\ prevTensionRef' = s.prevTensionRef
    /\ burstEnergy' = s.burstEnergy
    /\ shockwaveRadius' = s.shockwaveRadius
    /\ explosionPhase' = s.explosionPhase
    /\ cumulativeExplosion' = s.cumulativeExplosion

----------------------------------------------------------------------------
(* Observers *)

AgeCap(g) == IF g \in specialGestures THEN ConfirmTicks ELSE ReleaseTicks

\* the raw gesture's age after a step: a special gesture is as old as its own
\* value, a base gesture as old as the raw gesture's stay outside the special
\* ones; the age is counted only while the raw gesture differs from the
\* committed gesture cur
NextAge(old, new, cur) ==
    IF new = cur THEN 0
    ELSE IF new \in specialGestures
         THEN IF new = old THEN rawAge ELSE 0
         ELSE IF old \in specialGestures THEN 0 ELSE rawAge

\* write the component state s back; fired is the kind of the timer that fired
Commit(s, hd, fired) ==
    /\ handData' = hd
    /\ currentGesture' = s.cur
    /\ activeShape' = s.shape
    /\ particleColor' = s.color
    /\ previousShape' = s.pShape
    /\ previousColor' = s.pColor
    /\ timers' = s.timers
    /\ gestureTimerRef' = s.ref
    /\ effectPending' = DepsChanged(AppState, s)
    /\ rawAge' = NextAge(handData.gesture, hd.gesture, s.cur)
    /\ excursion' =
          IF currentGesture \notin specialGestures /\ s.cur \in specialGestures
          THEN <<activeShape, particleColor>>
          ELSE excursion
    /\ last' = [fired |-> fired,
                cancelled |-> {t.kind : t \in timers \ s.timers} \ {fired},
                from |-> IF s.cur = currentGesture THEN "same" ELSE currentGesture]
    /\ returned' =
          IF s.cur # currentGesture THEN FALSE
          ELSE IF /\ hd.gesture = s.cur /\ s.cur \in specialGestures
                  /\ \E t \in timers \ s.timers : t.kind = "release"
                  /\ fired # "release"
               THEN TRUE
               ELSE returned
    /\ UNCHANGED <<svcVars, frameVars, psVars>>

----------------------------------------------------------------------------
(* Steps *)

Init ==
    /\ handData = NeutralHandData
    /\ currentGesture = "none"
    /\ activeShape = "Sphere"
    /\ particleColor = "#4ade80"
    /\ previousShape = "Sphere"
    /\ previousColor = "#4ade80"
    /\ isTracking = FALSE
    /\ timers = {}
    /\ gestureTimerRef = 0
    /\ effectPending = FALSE
    /\ rawAge = 0
    /\ excursion = <<"Sphere", "#4ade80">>
    /\ last = [fired |-> "none", cancelled |-> {}, from |-> "same"]
    /\ returned = FALSE
    /\ isRunning = FALSE
    /\ hands = 0
    /\ camera = 0
    /\ inst = <<>>
    /\ calls = <<>>
    /\ inFlight = 0
    /\ lastCall = [op |-> "new", wasRunning |-> FALSE, repeated |-> FALSE]
    /\ results = NoResults
    /\ published = <<>>
    /\ perHand = <<>>
    /\ outcome = "idle"
    /\ props = [shape |-> "Sphere", count |-> 21, customText |-> "hi"]
    /\ mounted = FALSE
    /\ targetPositions = <<>>
    /\ currentPositions = <<>>
    /\ velocities = <<>>
    /\ explosionVelocities = <<>>
    /\ tensionVelocity = Fin(0, 1)
    /\ prevTensionRef = Fin(0, 1)
    /\ burstEnergy = Fin(0, 1)
    /\ shockwaveRadius = Fin(0, 1)
    /\ explosionPhase = Fin(0, 1)
    /\ cumulativeExplosion = Fin(0, 1)
    /\ frame = NoFrame
    /\ initPending = FALSE
    /\ renderCount = 0
    /\ frameCount = 0

TimerDue == \E t \in timers : t.left = 0

\* an event is handled when no timer is due and React has run its effects
Idle == ~TimerDue /\ ~effectPending

\* 100 ms pass
Tick ==
    /\ Idle
    /\ timers' = {[t EXCEPT !.left = @ - 1] : t \in timers}
    /\ rawAge' = IF handData.gesture # currentGesture /\ rawAge < AgeCap(handData.gesture)
                 THEN rawAge + 1 ELSE rawAge
    /\ last' = [fired |-> "none", cancelled |-> {}, from |-> "same"]
    /\ UNCHANGED <<handData, currentGesture, activeShape, particleColor,
                   previousShape, previousColor, isTracking, gestureTimerRef,
                   effectPending, excursion, returned>>
    /\ UNCHANGED <<svcVars, frameVars, psVars>>

\* a timer fires: its callback runs
TimerFire ==
    \E t \in timers :
        /\ t.left = 0
        /\ ~effectPending
        /\ LET s0 == [AppState EXCEPT !.timers = @ \ {t}]
           IN  Commit(IF t.kind = "confirm" THEN ConfirmCallback(s0, t)
                                            ELSE ReleaseCallback(s0, t),
                      handData, t.kind)
        /\ UNCHANGED isTracking

\* the gesture effect after a render that changed one of its dependencies: the
\* cleanup of its previous run, then its body
RunEffect ==
    /\ effectPending
    /\ Commit(GestureEffect(EffectCleanup(AppState)), handData, "none")
    /\ UNCHANGED isTracking

\* the service's onUpdate callback: setHandData
OnUpdate ==
    \E st \in PublishedStates :
        /\ Idle
        /\ isTracking
        /\ Commit([AppState EXCEPT !.gesture = st.gesture],
                  [tension |-> st.tension, detected |-> st.detected,
                   leftHand |-> st.leftHand, rightHand |-> st.rightHand,
                   gesture |-> st.gesture], "none")
        /\ UNCHANGED isTracking

\* a shape button of the panel, or EXECUTE / Enter in the text input (Text)
SelectShape ==
    \E sh \in UIShapes :
        /\ Idle
        /\ Commit([AppState EXCEPT !.shape = sh], handData, "none")
        /\ UNCHANGED isTracking

\* a color preset or the color picker
SelectColor ==
    \E c \in UIColors :
        /\ Idle
        /\ Commit([AppState EXCEPT !.color = c], handData, "none")
        /\ UNCHANGED isTracking

\* Start Experience, the camera granted
HandleStartTracking ==
    /\ Idle
    /\ ~isTracking
    /\ isTracking' = TRUE
    /\ Commit(AppState, handData, "none")

\* Stop Camera
HandleStopTracking ==
    /\ Idle
    /\ isTracking
    /\ isTracking' = FALSE
    /\ Commit([AppState EXCEPT !.gesture = "none", !.cur = "none"],
              NeutralHandData, "none")

Next ==
    \/ Tick
    \/ TimerFire
    \/ RunEffect
    \/ OnUpdate
    \/ SelectShape
    \/ SelectColor
    \/ HandleStartTracking
    \/ HandleStopTracking

Spec == Init /\ [][Next]_vars

----------------------------------------------------------------------------
(* The service under any caller *)

\* service.start(videoElement)
Start ==
    /\ isRunning \/ Len(inst) < MaxStarts
    /\ CommitSvc(StartCall(SvcState), "start")
    /\ UNCHANGED <<appVars, obsVars, frameVars, psVars>>

\* the camera is granted: the awaiting start() goes on
CameraStartResolve ==
    \E c \in 1..Len(calls) :
        /\ calls[c].status = "awaiting"
        /\ CommitSvc(StartResume(SvcState, c), "resume")
        /\ UNCHANGED <<appVars, obsVars, frameVars, psVars>>

\* the camera is refused: the awaiting start() throws
CameraStartReject ==
    \E c \in 1..Len(calls) :
        /\ calls[c].status = "awaiting"
        /\ CommitSvc(StartThrow(SvcState, c), "throw")
        /\ UNCHANGED <<appVars, obsVars, frameVars, psVars>>

\* service.stop()
Stop ==
    /\ CommitSvc(StopCall(SvcState), "stop")
    /\ UNCHANGED <<appVars, obsVars, frameVars, psVars>>

\* a started Camera hands a video frame to its onFrame callback
OnFrame ==
    \E i \in 1..Len(inst) :
        /\ inst[i].cam = "started" /\ inst[i].camStops = 0
        /\ inFlight = 0
        /\ CommitSvc(OnFrameCall(SvcState), "frame")
        /\ UNCHANGED <<appVars, obsVars, frameVars, psVars>>

\* the detector delivers the results of the frame in flight: onUpdate is
\* called
ResultsArrive ==
    /\ inFlight # 0
    /\ CommitSvc(OnResultsCall(SvcState), "update")
    /\ UNCHANGED <<appVars, obsVars, frameVars, psVars>>

\* the detector, closed meanwhile, delivers nothing for the frame in flight
ResultsDropped ==
    /\ inFlight # 0
    /\ inst[inFlight].handsCloses > 0
    /\ CommitSvc([SvcState EXCEPT !.inFlight = 0], "drop")
    /\ UNCHANGED <<appVars, obsVars, frameVars, psVars>>

NextSvc ==
    \/ Start
    \/ CameraStartResolve
    \/ CameraStartReject
    \/ Stop
    \/ OnFrame
    \/ ResultsArrive
    \/ ResultsDropped

SpecSvc == Init /\ [][NextSvc]_vars

----------------------------------------------------------------------------
(* The service's results callback under any detector *)

\* hands.send(image): the detector has results for a frame
HandsSend ==
    /\ outcome = "idle"
    /\ \/ results' = NoResults
       \/ \E n \in 0..maxNumHands :
             \E h \in [1..n -> HandPoses], l \in [1..n -> Handedness] :
                results' = Frame(h, l)
    /\ published' = <<>>
    /\ perHand' = <<>>
    /\ outcome' = "pending"
    /\ UNCHANGED <<appVars, obsVars, svcVars, psVars>>

\* the onResults callback: processResults(results)
OnResults ==
    /\ outcome = "pending"
    /\ LET r == processResults(results)
       IN  /\ published' = r.published
           /\ perHand' = r.perHand
           /\ outcome' = r.outcome
    /\ UNCHANGED results
    /\ UNCHANGED <<appVars, obsVars, svcVars, psVars>>

\* the callback is over, by return or by throw: the next frame can come
FrameDone ==
    /\ outcome \in {"returned", "threw"}
    /\ results' = NoResults
    /\ published' = <<>>
    /\ perHand' = <<>>
    /\ outcome' = "idle"
    /\ UNCHANGED <<appVars, obsVars, svcVars, psVars>>

NextFrame ==
    \/ HandsSend
    \/ OnResults
    \/ FrameDone

SpecFrame == Init /\ [][NextFrame]_vars

----------------------------------------------------------------------------
(* ParticleSystem under any parent *)

\* the component renders for the first time, with the tension given, or
\* with a new shape, count or text; a render that changes the tension only
\* changes no memo and runs no effect, and is part of the frame that reads
\* the tension
RenderStep(first, later, tensions, maxRenders) ==
    /\ ~initPending
    /\ renderCount < maxRenders
    /\ \E p \in (IF mounted THEN later \ {props} ELSE first),
          tension \in (IF mounted THEN {0} ELSE tensions), u \in RandomDraws :
          CommitPs(RenderWith(PsState, p, tension, u))
    /\ initPending' = TRUE
    /\ renderCount' = renderCount + 1
    /\ UNCHANGED <<frame, frameCount>>
    /\ UNCHANGED <<appVars, obsVars, svcVars, frameVars>>

\* React runs the effect of the render
InitEffect ==
    /\ initPending
    /\ CommitPs(InitPositions(PsState))
    /\ initPending' = FALSE
    /\ UNCHANGED <<frame, renderCount, frameCount>>
    /\ UNCHANGED <<appVars, obsVars, svcVars, frameVars>>

\* an animation frame in text mode, the tension prop being tension
TextStep(tensions, maxFrames) ==
    /\ mounted /\ ~initPending
    /\ props.shape = "Text"
    /\ frameCount < maxFrames
    /\ \E tension \in tensions, wave \in {0, 20} :
          /\ CommitPs(TextFrame(PsState, wave))
          /\ frame' = [mode |-> "text", tension |-> tension,
                       tensionDelta |-> Fin(0, 1), burst |-> burstEnergy]
    /\ frameCount' = frameCount + 1
    /\ UNCHANGED <<renderCount, initPending>>
    /\ UNCHANGED <<appVars, obsVars, svcVars, frameVars>>

\* an animation frame in full mode, the tension prop being tension
FullStep(tensions, deltas, offsets, maxFrames) ==
    /\ mounted /\ ~initPending
    /\ props.shape # "Text"
    /\ frameCount < maxFrames
    /\ \E tension \in tensions, delta \in deltas, offset \in offsets,
          u \in RandomDraws :
          /\ CommitPs(FullFrame(PsState, tension, delta, offset, u))
          /\ frame' = [mode |-> "full", tension |-> tension,
                       tensionDelta |-> TensionDelta(PsState, tension),
                       burst |-> Accumulate(PsState,
                                            TensionDelta(PsState, tension)).burstEnergy]
    /\ frameCount' = frameCount + 1
    /\ UNCHANGED <<renderCount, initPending>>
    /\ UNCHANGED <<appVars, obsVars, svcVars, frameVars>>

Render == RenderStep({props}, PropsSet, TensionInputs, MaxRenders)
TextTick == TextStep({0}, MaxFrames)
FullTick == FullStep(TensionInputs, Deltas, ClockOffsets, MaxFrames)

NextPs ==
    \/ Render
    \/ InitEffect
    \/ TextTick
    \/ FullTick

SpecPs == Init /\ [][NextPs]_vars

----------------------------------------------------------------------------
(* The animation of one particle *)

AnimRender ==
    RenderStep(AnimPropsSet, AnimPropsSet, AnimTensionInputs, MaxAnimRenders)
AnimTextTick == TextStep(AnimTensionInputs, MaxAnimFrames)
AnimFullTick == FullStep(AnimTensionInputs, AnimDeltas, {0}, MaxAnimFrames)

NextAnim ==
    \/ AnimRender
    \/ InitEffect
    \/ AnimTextTick
    \/ AnimFullTick

SpecAnim == Init /\ [][NextAnim]_vars

----------------------------------------------------------------------------
(* Properties of the gesture debouncer, checked under Spec *)

raw == handData.gesture
ConfirmDue == \E t \in timers : t.kind = "confirm" /\ t.left = 0
ReleaseDue == \E t \in timers : t.kind = "release" /\ t.left = 0
\* for how long the raw gesture has been outside the special gestures
AgeOutside == IF raw \in specialGestures THEN 0 ELSE rawAge

\* C1: when the raw gesture has left a special gesture for a base gesture, the
\* effect that runs next leaves no confirm timer armed and changes neither the
\* committed gesture nor the shape or color; a special gesture is committed only
\* when it has been the raw gesture for the 300 ms before
C1_ShortExcursionNotCommitted ==
    [][ /\ (effectPending /\ raw \notin specialGestures)
           => /\ \A t \in timers' : t.kind # "confirm"
              /\ currentGesture' \notin specialGestures \/ currentGesture' = currentGesture
              /\ activeShape' = activeShape /\ particleColor' = particleColor
        /\ (currentGesture' # currentGesture /\ currentGesture' \in specialGestures)
           => /\ raw = currentGesture' /\ handData'.gesture = currentGesture'
              /\ rawAge >= ConfirmTicks
      ]_vars

C1_Witness ==
    /\ last.cancelled = {"confirm"}
    /\ isTracking
    /\ raw \notin specialGestures
    /\ currentGesture \notin specialGestures
    /\ rawAge < ConfirmTicks
    /\ timers = {}

\* C2: a special gesture that has been the raw gesture for 300 ms is the committed
\* gesture, whatever else happened in the 300 ms, and the commit applies the
\* gesture's shape and color
C2_CommittedAfterConfirm ==
    /\ (raw \in specialGestures /\ rawAge >= ConfirmTicks /\ Idle)
       => currentGesture = raw
    /\ last.fired = "confirm"
       => /\ activeShape = GestureShape(currentGesture)
          /\ particleColor = GestureColor(currentGesture)

C4_ReleaseRestoresExcursionStart ==
    last.fired = "release"
    => /\ currentGesture = "none"
       /\ <<activeShape, particleColor>> = excursion

C4_Witness ==
    /\ last.fired = "release"
    /\ last.from = "love"
    /\ excursion = <<"Text", "#4ade80">>
    /\ activeShape = "Text" /\ particleColor = "#4ade80"

\* C5: the saved shape and color change only when a confirm timer fires while the
\* committed gesture is a base gesture; a commit from one special gesture to
\* another leaves them unchanged
C5_SnapshotOnlyFromBase ==
    [][ /\ (previousShape' # previousShape \/ previousColor' # previousColor)
           => /\ ConfirmDue
              /\ currentGesture \notin specialGestures
              /\ currentGesture' \in specialGestures
              /\ previousShape' = activeShape /\ previousColor' = particleColor
        /\ (currentGesture \in specialGestures /\ currentGesture' \in specialGestures)
           => /\ previousShape' = previousShape
              /\ previousColor' = previousColor
      ]_vars

C5_Witness ==
    /\ last.fired = "confirm"
    /\ last.from \in specialGestures
    /\ currentGesture \in specialGestures
    /\ activeShape = GestureShape(currentGesture)
    /\ <<previousShape, previousColor>> = <<"Sphere", "#4ade80">>

\* C6: a raw base gesture that differs from a committed base gesture is committed
\* by the effect that runs next, which arms no timer and leaves the shape, the
\* color and the saved shape and color; no time passes while they differ
C6_BaseAppliedImmediately ==
    [][ /\ (effectPending /\ currentGesture \notin specialGestures
              /\ raw \notin specialGestures /\ raw # currentGesture)
           => /\ currentGesture' = raw
              /\ timers' = {}
              /\ UNCHANGED <<handData, activeShape, particleColor,
                             previousShape, previousColor>>
        /\ (currentGesture \notin specialGestures
              /\ raw \notin specialGestures /\ raw # currentGesture)
           => effectPending /\ rawAge' = 0
      ]_vars

C6_Witness ==
    /\ last.from \in BaseGestures
    /\ last.fired = "none"
    /\ currentGesture \in {"open", "fist"}
    /\ raw = currentGesture
    /\ timers = {}

\* C7: at most one timer is armed; once the effect has run, the armed timer is the
\* one gestureTimerRef names and it was armed for the present raw gesture and
\* the present committed gesture
C7_OneLiveTimer ==
    /\ Cardinality(timers) <= 1
    /\ ~effectPending
       => \A t \in timers :
             /\ t.id = gestureTimerRef
             /\ t.gesture = raw
             /\ t.cur = currentGesture
             /\ t.kind = IF raw \in specialGestures THEN "confirm" ELSE "release"

C7_Witness ==
    /\ last.cancelled = {"confirm"}
    /\ Cardinality(timers) = 1
    /\ \E t \in timers : t.left = ReleaseTicks /\ t.kind = "release"

----------------------------------------------------------------------------
(* Properties of HandTrackingService, checked under SpecSvc *)

HeldUnreleased(i) ==
    \/ hands = i /\ inst[i].handsCloses = 0
    \/ camera = i /\ inst[i].camStops = 0

\* C8: start() on a running service creates no Hands and no Camera, starts no
\* camera and leaves isRunning, hands and camera as they are
C8_StartWhileRunningIsNoOp ==
    [][ (isRunning /\ lastCall'.op = "start")
        => UNCHANGED <<isRunning, hands, camera, inst, calls>>
      ]_vars

C8_Witness ==
    /\ lastCall.op = "start"
    /\ lastCall.wasRunning
    /\ isRunning
    /\ hands = 1 /\ camera = 1
    /\ Len(inst) = 1

\* C9: no Camera and no Hands is released more than once, and a stop() that
\* follows a stop() releases nothing and changes nothing
C9_StopIdempotent ==
    [][ /\ \A i \in 1..Len(inst') :
              inst'[i].camStops <= 1 /\ inst'[i].handsCloses <= 1
        /\ (lastCall.op = "stop" /\ lastCall'.op = "stop")
           => UNCHANGED <<isRunning, hands, camera, inst, calls>>
      ]_vars

C9_Witness ==
    /\ lastCall.op = "stop"
    /\ lastCall.repeated
    /\ Len(inst) >= 2
    /\ \E i \in 1..Len(inst) : inst[i].camStops = 1 /\ inst[i].handsCloses = 1
    /\ hands = 0 /\ camera = 0 /\ ~isRunning

\* C10: when camera.start() has rejected and start() has thrown, the service is
\* not running and holds no unreleased Hands or Camera that this start() created
C10_FailedStartLeavesStopped ==
    lastCall.op = "throw"
    => \A c \in 1..Len(calls) :
          calls[c].status = "threw"
          => ~isRunning /\ ~HeldUnreleased(calls[c].cam)

----------------------------------------------------------------------------
(* Properties of processResults, checked under SpecFrame *)

Processed == outcome \in {"returned", "threw"}
HandCount == Len(results.multiHandLandmarks)
NoHands == ~results.defined \/ HandCount = 0

\* C11: for a frame without hands, multiHandLandmarks missing or empty,
\* processResults publishes exactly the neutral HandState
C11_NoHandsPublishesNeutral ==
    (Processed /\ NoHands)
    => /\ outcome = "returned"
       /\ published = <<[tension |-> Fin(0, 1), detected |-> FALSE,
                         leftHand |-> FALSE, rightHand |-> FALSE,
                         gesture |-> "none"]>>

\* processResults has returned from a frame whose list of hands is empty
C11_Witness ==
    outcome = "returned" /\ results.defined /\ HandCount = 0 /\ Len(published) = 1

\* C12: in every HandState the consumer sees (the initial handData, the
\* value handleStopTracking writes, every value processResults publishes)
\* detected = false implies tension = 0 and gesture = none
C12_UndetectedIsNeutral ==
    /\ ~handData.detected => handData.tension = 0 /\ handData.gesture = "none"
    /\ ~NeutralHandData.detected
          => NeutralHandData.tension = 0 /\ NeutralHandData.gesture = "none"
    /\ \A i \in 1..Len(published) :
          ~published[i].detected
          => published[i].tension = Fin(0, 1) /\ published[i].gesture = "none"

\* processResults has published an undetected state, for a frame that has no
\* multiHandLandmarks
C12_Witness ==
    outcome = "returned" /\ ~results.defined /\ Len(published) = 1
    /\ ~published[1].detected /\ ~handData.detected

InUnitInterval(a) == a.k = "fin" /\ 0 <= a.n /\ a.n <= a.d

\* C13: for any 21 landmarks, palmSize = 0 included, calculateTension returns
\* a number in [0,1], never NaN, and so is the averaged tension published
C13_TensionInUnitInterval ==
    /\ \A i \in 1..Len(perHand) : InUnitInterval(perHand[i].tension)
    /\ \A i \in 1..Len(published) : InUnitInterval(published[i].tension)

ShortHands == {i \in 1..HandCount : Len(results.multiHandLandmarks[i]) < 21}

\* the frame without its short observations
WithoutShortHands ==
    LET keep == SelectSeq([i \in 1..HandCount |-> i],
                          LAMBDA i : i \notin ShortHands)
    IN  [defined |-> TRUE,
         multiHandLandmarks |->
            [j \in 1..Len(keep) |-> results.multiHandLandmarks[keep[j]]],
         multiHandedness |->
            [j \in 1..Len(keep) |-> results.multiHandedness[keep[j]]]]

\* C14: an observation with fewer than 21 landmarks is treated as absent:
\* processResults does not throw and publishes the HandState of the other
\* hands of the frame
C14_ShortHandTreatedAsAbsent ==
    (Processed /\ results.defined /\ ShortHands # {})
    => /\ outcome = "returned"
       /\ published = processResults(WithoutShortHands).published

SpecificHands == {i \in 1..Len(perHand) : perHand[i].gesture # "none"}

\* C15: when hands of one frame show different specific gestures, the
\* published gesture is that of the first such hand in input order
C15_FirstSpecificGestureWins ==
    (outcome = "returned" /\ SpecificHands # {})
    => published[1].gesture =
          perHand[CHOOSE i \in SpecificHands :
                     \A j \in SpecificHands : i <= j].gesture

RECURSIVE SumTension(_)
SumTension(n) ==
    IF n = 0 THEN Fin(0, 1) ELSE NumAdd(SumTension(n - 1), perHand[n].tension)

LabelSeen(l) == \E i \in 1..HandCount : results.multiHandedness[i].label = l

C17_TensionGestureOnlyWithoutSpecific ==
    (outcome = "returned" /\ ~NoHands)
    => LET t == published[1].tension
           g == published[1].gesture
       IN  IF SpecificHands = {}
           THEN g = IF NumGt(t, Fin(7, 10)) THEN "fist"
                    ELSE IF NumLt(t, Fin(3, 10)) THEN "open" ELSE "none"
           ELSE g \in specialGestures

\* a hand shows thumbs_up while the tension is above 0.7
C17_Witness ==
    /\ outcome = "returned" /\ HandCount = 1
    /\ published[1].gesture = "thumbs_up"
    /\ NumGt(published[1].tension, Fin(7, 10))

\* the rules of the specification, by gesture
RuleHolds(g, p) ==
    CASE g = "victory"   -> p.indexExtended /\ p.middleExtended
                            /\ p.ringCurled /\ p.pinkyCurled
      [] g = "love"      -> p.thumbExtended /\ p.indexExtended
                            /\ ~p.middleExtended /\ ~p.ringExtended
                            /\ p.pinkyExtended
      [] g = "thumbs_up" -> p.thumbExtended /\ ~p.indexExtended
                            /\ ~p.middleExtended /\ ~p.ringExtended
                            /\ ~p.pinkyExtended
      [] g = "point"     -> p.indexExtended /\ ~p.middleExtended
                            /\ ~p.ringExtended /\ ~p.pinkyExtended

RuleOrder == <<"victory", "love", "thumbs_up", "point">>

\* the first rule of the order that holds, none when none does
FirstMatch(p) ==
    LET matching == {k \in 1..Len(RuleOrder) : RuleHolds(RuleOrder[k], p)}
    IN  IF matching = {} THEN "none"
        ELSE RuleOrder[CHOOSE k \in matching : \A m \in matching : k <= m]

\* C18: detectGesture is the first match over the finger states in the order
\* victory, love, thumbs_up, point, none; a hand that satisfies the victory
\* and the point rule is victory
C18_DetectGestureFirstMatch ==
    \A i \in 1..Len(perHand) :
        LET p == FingerStates(results.multiHandLandmarks[i])
        IN  /\ perHand[i].gesture = FirstMatch(p)
            /\ (RuleHolds("victory", p) /\ RuleHolds("point", p))
                  => perHand[i].gesture = "victory"

\* a frame whose hands were classified as love and as point
C18_Witness ==
    /\ outcome = "returned" /\ Len(perHand) = 2
    /\ perHand[1].gesture = "love" /\ perHand[2].gesture = "point"

----------------------------------------------------------------------------
(* Properties of ParticleSystem, checked under SpecPs *)

\* the point of particle i, counted from 0, in the target cloud
TargetPoint(i) ==
    <<targetPositions[3 * i + 1], targetPositions[3 * i + 2],
      targetPositions[3 * i + 3]>>

\* a jitter of at most 0.025
Near25(a, b) == a - b <= 25 /\ b - a <= 25

C20_PropsChangeKeepsPositions ==
    [][((mounted /\ props' # props)
        \/ (renderCount > 1 /\ initPending /\ ~initPending'))
       => (currentPositions' = currentPositions /\ velocities' = velocities)]_vars

----------------------------------------------------------------------------
(* Properties of the animation *)

\* the step is an animation frame in the mode given
FrameStep(mode) == frameCount' = frameCount + 1 /\ frame'.mode = mode

\* C21: a frame in text mode leaves tensionVelocity, burstEnergy,
\* explosionPhase, cumulativeExplosion and shockwaveRadius and the velocity
\* and explosion velocity of every particle as they were
C21_TextTickKeepsAccumulators ==
    [][FrameStep("text")
       => /\ tensionVelocity' = tensionVelocity
          /\ burstEnergy' = burstEnergy
          /\ explosionPhase' = explosionPhase
          /\ cumulativeExplosion' = cumulativeExplosion
          /\ shockwaveRadius' = shockwaveRadius
          /\ velocities' = velocities
          /\ explosionVelocities' = explosionVelocities]_vars

\* a text frame after a burst: the accumulators and the arrays are not zero
C21_Witness ==
    /\ frame.mode = "text"
    /\ NumGt(burstEnergy, Fin(1, 1))
    /\ NumGt(explosionPhase, Fin(0, 1))
    /\ NumGt(cumulativeExplosion, Fin(0, 1))
    /\ NumGt(shockwaveRadius, Fin(0, 1))
    /\ ~IsZero(tensionVelocity)
    /\ \E k \in DOMAIN velocities : velocities[k] # 0
    /\ \E k \in DOMAIN explosionVelocities : explosionVelocities[k] # 0
    /\ currentPositions # targetPositions

\* lo <= a <= hi for a number a and two integers
Within(a, lo, hi) == a.k = "fin" /\ lo * a.d <= a.n /\ a.n <= hi * a.d

\* C22: for tensions in [0, 1] and deltas >= 0 the accumulators stay inside
\* their caps: 0 <= burstEnergy <= 5, 0 <= explosionPhase <= 1,
\* 0 <= cumulativeExplosion <= 2, and shockwaveRadius >= 0
C22_AccumulatorsWithinCaps ==
    /\ Within(burstEnergy, 0, 5)
    /\ Within(explosionPhase, 0, 1)
    /\ Within(cumulativeExplosion, 0, 2)
    /\ shockwaveRadius.k = "fin" /\ shockwaveRadius.n >= 0

\* a full frame whose opening ran into all three caps, after the decay
C22_Witness ==
    /\ frame.mode = "full"
    /\ frame.burst = Fin(5, 1)
    /\ burstEnergy = Fin(460, 100)
    /\ explosionPhase = Fin(95, 100)
    /\ cumulativeExplosion = Fin(196, 100)
    /\ NumGt(shockwaveRadius, Fin(0, 1))

\* the accumulator went from a to b without growing: it decreased strictly or
\* stayed 0
Decreased(a, b) == NumLt(b, a) \/ (IsZero(a) /\ IsZero(b))

DropSinceLastFrame == NumSub(Milli(frame'.tension), Milli(frame.tension))

\* C30: on every full frame tensionDelta is the tension of this frame minus
\* the tension of the frame before it, in whatever mode that frame ran; the
\* first full frame after text frames raises burstEnergy only if the tension
\* dropped by more than 0.015 since the last text frame
C30_TensionDeltaSincePrecedingFrame ==
    [][(FrameStep("full") /\ frame.mode # "none")
       => /\ frame'.tensionDelta = DropSinceLastFrame
          /\ (frame.mode = "text" /\ NumGt(burstEnergy', burstEnergy))
                => NumLt(DropSinceLastFrame, Fin(-15, 1000))]_vars

----------------------------------------------------------------------------
(* Properties of the App and the service, continued *)

\* C24: handData is written by the onUpdate callback only, and currentGesture,
\* the saved shape and color and the timer slot by the gesture effect and its
\* timer callbacks only
C24_SingleWriter ==
    [][/\ handData' # handData => OnUpdate
       /\ (\/ currentGesture' # currentGesture
           \/ previousShape' # previousShape
           \/ previousColor' # previousColor
           \/ gestureTimerRef' # gestureTimerRef) => (RunEffect \/ TimerFire)]_vars

\* the Camera of instance i is starting or started and was not stopped; its
\* Hands was not closed
CameraLive(i) == inst[i].cam \in {"starting", "started"} /\ inst[i].camStops = 0
HandsLive(i) == inst[i].handsCloses = 0

\* C25: however start() calls interleave, at most one Camera and at most one
\* Hands is live and unreleased, and every unreleased instance is the one the
\* service references, which the next stop() releases
C25_OneLiveInstance ==
    /\ Cardinality({i \in 1..Len(inst) : CameraLive(i)}) <= 1
    /\ Cardinality({i \in 1..Len(inst) : HandsLive(i)}) <= 1
    /\ \A i \in 1..Len(inst) :
          /\ CameraLive(i) => camera = i
          /\ HandsLive(i) => hands = i

\* C26: the service calls onUpdate only while it is running: after stop() no
\* results reach onUpdate, not even those of a frame sent before stop()
C26_NoUpdateAfterStop ==
    [][lastCall'.op = "update" => isRunning]_vars

\* C27: whenever currentGesture leaves the special gestures, through the
\* release timer or through handleStopTracking, activeShape and particleColor
\* are the saved previousShape and previousColor afterwards
C27_LeavingSpecialRestores ==
    [][(currentGesture \in specialGestures
        /\ currentGesture' \notin specialGestures)
       => (activeShape' = previousShape' /\ particleColor' = previousColor')]_vars

ReleasePending == \E t \in timers : t.kind = "release"

\* the effect that runs after the raw gesture came back to the committed
\* special gesture cancels the release timer and changes nothing else
ReturnCancelsRelease ==
    (effectPending /\ raw = currentGesture /\ currentGesture \in specialGestures
       /\ ReleasePending)
    => /\ timers' = {}
       /\ UNCHANGED <<currentGesture, activeShape, particleColor,
                      previousShape, previousColor>>

----------------------------------------------------------------------------
(* The debouncer while tracking runs and the user touches nothing: due   *)
(* timers fire, pending effects run, and time passes again and again,    *)
(* however often the raw gesture changes                                 *)

NextLive ==
    \/ Tick
    \/ TimerFire
    \/ RunEffect
    \/ OnUpdate
    \/ HandleStartTracking

SpecLive ==
    /\ Init /\ [][NextLive]_vars
    /\ SF_vars(Tick) /\ WF_vars(TimerFire) /\ WF_vars(RunEffect)

\* C28: once a special gesture is committed and the raw gesture is never a
\* special gesture again, currentGesture becomes none and the saved shape and
\* color are restored, however the raw gesture moves among none, open and fist
C28_ReleaseEventually ==
    []((currentGesture \in specialGestures /\ [](raw \notin specialGestures))
       => <>(/\ currentGesture = "none"
             /\ activeShape = previousShape
             /\ particleColor = previousColor))

====
